---- MODULE Spec2Model ----
(***************************************************************************)
(* Job store, pipeline executor, mention intake and reply reconciliation   *)
(* of celebxplain (server/utils/db.py, server/tasks/job_tasks.py,          *)
(* server/services/job_service.py, server/twitter_bot/bot_logic.py).       *)
(*                                                                         *)
(* Processes: the bot's main thread (handle_mention), the bot's polling    *)
(* thread (poll_job_statuses), one Celery worker (process_job) with its    *)
(* two pool threads, and the API server's per-job thread (_process_job).   *)
(* They share the SQLite store; the bot threads share active_jobs_cache.   *)
(* post_reply and listen_for_mentions of server/twitter_bot/               *)
(* twitter_client.py are modelled on their own, one call and one run.      *)
(***************************************************************************)
EXTENDS Integers, Sequences, FiniteSets, TLC

VARIABLES
  jobs,         \* table jobs: job id -> row
  job_updates,  \* table job_updates: per job_id, its rows in rowid order
  clock,        \* per job: the next value datetime.now() returns to a writer of the job
  nextId,       \* the next fresh uuid4
  queue,        \* process_job tasks sent to the broker and not yet acknowledged
  hm,           \* bot main thread: position in handle_mention and its locals
  cache,        \* active_jobs_cache of the running bot process
  poll,         \* bot polling thread: position in poll_job_statuses and its locals
  posted,       \* per job: replies post_reply has posted, counted up to MaxPosted
  calls,        \* per job: post_reply calls of the loop in this bot process, up to MaxCalls
  w,            \* Celery worker: position in process_job and its locals
  call,         \* the last direct call of a store function (store specification)
  deliveries,   \* per job: times the broker has handed its task to the worker
  pr,           \* one call of post_reply: its position, loop index and create_tweet outcomes
  lm            \* listen_for_mentions: its position, last_processed_mention_id and the batch

vars == <<jobs, job_updates, clock, nextId, queue, hm, cache, poll,
          posted, calls, w, call, deliveries, pr, lm>>

\* ---------------------------------------------------------------- bounds
MaxJobs == 2
MaxTweets == 1
MaxLoopTweets == 2
MaxCalls == 3
MaxPosted == 2
MaxStoreCalls == 4
MaxDeliveries == 2
MaxMentionId == 3

\* ------------------------------------------------------ program constants
MAX_REPLY_ATTEMPTS_PER_SESSION == 2
NULL == 0
NULLTEXT == "NULL"

JobIds == 1..MaxJobs
Tweets == 1..MaxTweets
Terminal == {"completed", "error"}

\* ------------------------------------------------------------- job store
\* The row INSERTed by create_job; the columns of CREATE TABLE jobs.
JobRow(persona_id, query, now, original_tweet_id, original_tweet_author_id) ==
  [persona_id |-> persona_id, query |-> query, status |-> "created",
   created_at |-> now, completed_at |-> NULL, result_url |-> NULLTEXT,
   error |-> NULLTEXT, original_tweet_id |-> original_tweet_id,
   original_tweet_author_id |-> original_tweet_author_id, reply_posted |-> 0]

\* A row of job_updates.
UpdateRow(job_id, status, message, now) ==
  [job_id |-> job_id, status |-> status, message |-> message, created_at |-> now]

\* INSERT INTO job_updates: the row gets the next AUTOINCREMENT id, so it
\* comes last among its job's rows in rowid order.
InsertUpdate(U, job_id, status, message, now) ==
  [U EXCEPT ![job_id] = Append(@, UpdateRow(job_id, status, message, now))]

\* create_job raises (sqlite3.IntegrityError) only on the PRIMARY KEY id:
\* the jobs table declares no other uniqueness constraint.
create_job_raises(J, job_id) == job_id \in DOMAIN J

create_job(J, U, job_id, persona_id, query, original_tweet_id, original_tweet_author_id, now) ==
  [jobs |-> (job_id :> JobRow(persona_id, query, now, original_tweet_id,
                              original_tweet_author_id)) @@ J,
   job_updates |-> InsertUpdate(U, job_id, "created", "Job created", now)]

\* An UPDATE that drops the job's origin when it records an error.
update_job_row_clearing_origin(row, status, result_url, error, now) ==
  IF status = "completed"
    THEN [row EXCEPT !.status = status, !.completed_at = now, !.result_url = result_url]
    ELSE IF status = "error"
      THEN [row EXCEPT !.status = status, !.error = error, !.original_tweet_id = NULL]
      ELSE [row EXCEPT !.status = status]

\* An UPDATE that also clears reply_posted when the job is processed again.
update_job_row_clearing_reply_posted(row, status, result_url, error, now) ==
  IF status = "completed"
    THEN [row EXCEPT !.status = status, !.completed_at = now, !.result_url = result_url]
    ELSE IF status = "error"
      THEN [row EXCEPT !.status = status, !.error = error]
      ELSE [row EXCEPT !.status = status, !.reply_posted = 0]

\* The UPDATE of update_job_status: which columns it sets depends on status.
update_job_row(row, status, result_url, error, now) ==
  IF status = "completed"
    THEN [row EXCEPT !.status = status, !.completed_at = now, !.result_url = result_url]
    ELSE IF status = "error"
      THEN [row EXCEPT !.status = status, !.error = error]
      ELSE [row EXCEPT !.status = status]

\* update_job_status: UPDATE (no row matched when the id is unknown) and
\* INSERT INTO job_updates, committed together.  now is the value of
\* datetime.now() the caller read before the first statement.
update_job_status(J, U, job_id, status, message, result_url, error, now) ==
  [jobs |-> IF job_id \in DOMAIN J
              THEN [J EXCEPT ![job_id] = update_job_row(@, status, result_url, error, now)]
              ELSE J,
   job_updates |-> InsertUpdate(U, job_id, status,
                     IF message = NULLTEXT THEN "Status changed" ELSE message, now)]

\* ORDER BY created_at ASC; rows with equal created_at stay in rowid order.
RECURSIVE InsertByCreatedAt(_, _)
InsertByCreatedAt(s, u) ==
  IF s = <<>> THEN <<u>>
  ELSE IF s[Len(s)].created_at <= u.created_at THEN Append(s, u)
  ELSE Append(InsertByCreatedAt(SubSeq(s, 1, Len(s) - 1), u), s[Len(s)])

RECURSIVE OrderByCreatedAt(_)
OrderByCreatedAt(s) ==
  IF s = <<>> THEN <<>>
  ELSE InsertByCreatedAt(OrderByCreatedAt(SubSeq(s, 1, Len(s) - 1)), s[Len(s)])

\* SELECT * FROM job_updates WHERE job_id = ? ORDER BY created_at ASC
get_job_updates(U, job_id) == OrderByCreatedAt(U[job_id])

\* A WHERE clause that forgets the reply_posted column.
IsPendingReply_ignoring_reply_posted(row) ==
  /\ row.original_tweet_id # NULL
  /\ row.status = "completed" \/ row.status = "error"

\* The WHERE clause of get_pending_twitter_replies.
IsPendingReply(row) ==
  /\ row.original_tweet_id # NULL
  /\ row.status = "completed" \/ row.status = "error"
  /\ row.reply_posted = 0

get_pending_twitter_replies(J) == {id \in DOMAIN J : IsPendingReply(J[id])}

\* SELECT * FROM jobs WHERE original_tweet_id = ? LIMIT 1 (NULL: no row).
get_job_by_tweet_id(J, tweet_id) ==
  IF \E id \in DOMAIN J : J[id].original_tweet_id = tweet_id
    THEN CHOOSE id \in DOMAIN J : J[id].original_tweet_id = tweet_id
    ELSE NULL

\* A read-modify-write: the row is written back with the status and error
\* the loop read in its query, and reply_posted = 1.
mark_job_reply_posted_from_details(J, job_id) ==
  IF job_id \in DOMAIN J
    THEN [J EXCEPT ![job_id].reply_posted = 1,
                   ![job_id].status = Head(poll.todo).db_status,
                   ![job_id].error = Head(poll.todo).db_error_message]
    ELSE J

\* An UPDATE that records the delivery in the status column as well.
mark_job_reply_posted_and_status(J, job_id) ==
  IF job_id \in DOMAIN J
    THEN [J EXCEPT ![job_id].reply_posted = 1, ![job_id].status = "replied"]
    ELSE J

\* UPDATE jobs SET reply_posted = 1 WHERE id = ?
mark_job_reply_posted(J, job_id) ==
  IF job_id \in DOMAIN J THEN [J EXCEPT ![job_id].reply_posted = 1] ELSE J

\* cursor.rowcount > 0: the number of rows the WHERE clause matched.
mark_job_reply_posted_returns(J, job_id) == job_id \in DOMAIN J

\* ------------------------------------------------------------ initial state
HmIdle == [pc |-> "idle", tweet |-> NULL, job |-> NULL, now |-> NULL]
PollSleep == [pc |-> "sleep", todo |-> <<>>]
WIdle == [pc |-> "idle", job |-> NULL, now |-> NULL, exc |-> NULLTEXT,
          celeb |-> "none", visuals |-> "none", invoked |-> {}, returned |-> {},
          substitute |-> {}]
NoCall == [op |-> "none", job_id |-> NULL, tweet |-> NULL, raised |-> FALSE,
           returned |-> FALSE, posted_before |-> 0, rows_before |-> 0, n |-> 0]
PrIdle == [pc |-> "idle", attempt |-> 0, outcomes |-> <<>>, result |-> NULLTEXT]
MentionIds == 1..MaxMentionId
LmStart == [pc |-> "start", last |-> NULL, todo |-> <<>>, fetched |-> {},
            handed |-> [t \in MentionIds |-> 0], raised |-> {}, file |-> NULL]

\* init_db has created both tables, empty; the bot, the worker and the API
\* server have just started.
Init ==
  /\ jobs = <<>>
  /\ job_updates = [j \in JobIds |-> <<>>]
  /\ clock = [j \in JobIds |-> 1]
  /\ nextId = 1
  /\ queue = {}
  /\ hm = HmIdle
  /\ cache = <<>>
  /\ poll = PollSleep
  /\ posted = [j \in JobIds |-> 0]
  /\ calls = [j \in JobIds |-> 0]
  /\ w = WIdle
  /\ call = NoCall
  /\ deliveries = [j \in JobIds |-> 0]
  /\ pr = PrIdle
  /\ lm = LmStart

\* Counting stops at the bound: the value max stands for "max or more".
UpTo(n, max) == IF n < max THEN n ELSE max

\* datetime.now() has been read n times by writers of job_id.
Tick(job_id, n) == clock' = [clock EXCEPT ![job_id] = @ + n]

\* Writes db (a record of both tables) back to the store variables.
Commit(db) == jobs' = db.jobs /\ job_updates' = db.job_updates

\* ------------------------------------------------------------ handle_mention
\* listen_for_mentions hands a fetched mention to the callback.
mention(t) ==
  /\ hm.pc = "idle"
  /\ hm' = [HmIdle EXCEPT !.pc = "check", !.tweet = t]
  /\ UNCHANGED <<jobs, job_updates, clock, nextId, queue, cache, poll,
                 posted, calls, w, call, deliveries, pr, lm>>

\* A duplicate check that only finds jobs not yet answered.
handle_mention_exists_unanswered(J, tweet_id) ==
  \E j \in DOMAIN J : J[j].original_tweet_id = tweet_id /\ J[j].reply_posted = 0

\* A duplicate check that never finds the tweet's job.
handle_mention_exists_never(J, tweet_id) == FALSE

\* The duplicate check: a tweet that already has a job creates none.
handle_mention_exists(J, tweet_id) == get_job_by_tweet_id(J, tweet_id) # NULL

\* Lines 89-117: the duplicate check, then request_parser.parse_tweet.
handle_mention_check ==
  /\ hm.pc = "check"
  /\ IF handle_mention_exists(jobs, hm.tweet)
       THEN hm' = HmIdle
       ELSE \E parsed \in BOOLEAN :
              hm' = IF parsed THEN [hm EXCEPT !.pc = "create"] ELSE HmIdle
  /\ UNCHANGED <<jobs, job_updates, clock, nextId, queue, cache, poll,
                 posted, calls, w, call, deliveries, pr, lm>>

\* Lines 122-139: uuid4 and db create_job; a store error ends the handler.
handle_mention_create ==
  /\ hm.pc = "create"
  /\ nextId <= MaxJobs
  /\ \E stored \in BOOLEAN :
       IF stored /\ ~create_job_raises(jobs, nextId)
         THEN /\ Commit(create_job(jobs, job_updates, nextId, "p", "q", hm.tweet,
                                   hm.tweet, clock[nextId]))
              /\ Tick(nextId, 1)
              /\ nextId' = nextId + 1
              /\ hm' = [hm EXCEPT !.pc = "send", !.job = nextId]
         ELSE /\ hm' = HmIdle
              /\ UNCHANGED <<jobs, job_updates, clock, nextId, pr, lm>>
  /\ UNCHANGED <<queue, cache, poll, posted,
                 calls, w,  call, deliveries, pr, lm>>

\* A handler that goes on to line 147 whether or not send_task raised.
handle_mention_after_send_ignoring_failure(sent) == "update"

\* Lines 142-149: after send_task the try block goes on to the write of line
\* 147; when send_task raised, the except clause of line 149 is entered.
handle_mention_after_send(sent) == IF sent THEN "update" ELSE "dispatch_failed"

\* Line 144: send_task, which may raise.
handle_mention_send ==
  /\ hm.pc = "send"
  /\ \E sent \in BOOLEAN :
       /\ queue' = IF sent THEN queue \cup {hm.job} ELSE queue
       /\ hm' = [hm EXCEPT !.pc = handle_mention_after_send(sent)]
  /\ UNCHANGED <<jobs, job_updates, clock, nextId, cache, poll,
                 posted, calls, w, call, deliveries, pr, lm>>

\* update_job_status line 116, called from line 147 or line 152.
handle_mention_now ==
  /\ hm.pc \in {"update", "dispatch_failed"}
  /\ hm' = [hm EXCEPT !.pc = IF hm.pc = "update" THEN "update_commit"
                                                 ELSE "dispatch_failed_commit",
                      !.now = clock[hm.job]]
  /\ Tick(hm.job, 1)
  /\ UNCHANGED <<jobs, job_updates, nextId, queue, cache, poll,
                 posted, calls, w, call, deliveries, pr, lm>>

\* Line 147: status 'processing' after the task was sent.
handle_mention_update ==
  /\ hm.pc = "update_commit"
  /\ Commit(update_job_status(jobs, job_updates, hm.job, "processing",
                              "Task sent to Celery for processing.", NULLTEXT,
                              NULLTEXT, hm.now))
  /\ hm' = [hm EXCEPT !.pc = "cache"]
  /\ UNCHANGED <<clock, nextId, queue, cache, poll,
                 posted, calls, w, call, deliveries, pr, lm>>

\* Lines 149-154: send_task raised.
handle_mention_dispatch_failed ==
  /\ hm.pc = "dispatch_failed_commit"
  /\ Commit(update_job_status(jobs, job_updates, hm.job, "error",
                              "Celery dispatch failed", NULLTEXT,
                              "Celery dispatch failed", hm.now))
  /\ hm' = HmIdle
  /\ UNCHANGED <<clock, nextId, queue, cache, poll,
                 posted, calls, w, call, deliveries, pr, lm>>

\* An entry of active_jobs_cache, by the two keys the loop reads.
CacheEntry(attempted, attempts) ==
  [reply_attempted_this_session |-> attempted, reply_attempts_in_session |-> attempts]

\* Lines 156-165: the new job's tracking entry (it has neither reply key,
\* which the loop reads as False and 0).
handle_mention_cache ==
  /\ hm.pc = "cache"
  /\ cache' = (hm.job :> CacheEntry(FALSE, 0)) @@ cache
  /\ hm' = HmIdle
  /\ UNCHANGED <<jobs, job_updates, clock, nextId, queue, poll,
                 posted, calls, w, call, deliveries, pr, lm>>

\* ---------------------------------------------------------- poll_job_statuses
\* Line 206: a row is skipped when the cache marks it attempted this session.
IsCandidate(C, job_id) ==
  ~(job_id \in DOMAIN C /\ C[job_id].reply_attempted_this_session)

\* Lines 212-222: the details kept for a candidate row.
Details(J, job_id) ==
  [job_id |-> job_id, original_tweet_id |-> J[job_id].original_tweet_id,
   db_status |-> J[job_id].status, video_url |-> J[job_id].result_url,
   db_error_message |-> J[job_id].error,
   reply_attempted_this_session |-> FALSE, reply_attempts_in_session |-> 0]

\* jobs_to_process_this_cycle, a dict in the order of the rows.
RECURSIVE DetailsOf(_, _)
DetailsOf(J, ids) ==
  IF ids = {} THEN <<>>
  ELSE LET m == CHOOSE x \in ids : \A y \in ids : x <= y
       IN <<Details(J, m)>> \o DetailsOf(J, ids \ {m})

\* Lines 226-229: active_jobs_cache[job_id].update(details).
CacheAfterQuery(C, cand) ==
  [id \in DOMAIN C \cup cand |->
     IF id \in cand THEN CacheEntry(FALSE, 0) ELSE C[id]]

\* Lines 199-230, one cycle's Part 1: the query and the candidates.
poll_query ==
  /\ poll.pc = "sleep"
  /\ LET rows == get_pending_twitter_replies(jobs)
         cand == {id \in rows : IsCandidate(cache, id)}
     IN /\ cache' = CacheAfterQuery(cache, cand)
        /\ poll' = IF cand = {} THEN PollSleep
                   ELSE [pc |-> "reply", todo |-> DetailsOf(jobs, cand)]
  /\ UNCHANGED <<jobs, job_updates, clock, nextId, queue, hm,
                 posted, calls, w, call, deliveries, pr, lm>>

\* The loop variable moves to the next job of the cycle, or the cycle ends.
NextJob(p) ==
  IF Len(p.todo) > 1 THEN [pc |-> "reply", todo |-> Tail(p.todo)] ELSE PollSleep

\* A limit test on a count that survives the process and is exhausted.
LimitReached_across_restarts(details) == TRUE

\* Line 252: the attempt limit, tested on the count kept in details.
LimitReached(details) ==
  details.reply_attempts_in_session >= MAX_REPLY_ATTEMPTS_PER_SESSION

\* Lines 311-322: the cache after a delivery that returned no response.
CacheAfterFailure(C, details) ==
  IF details.job_id \in DOMAIN C
    THEN [C EXCEPT ![details.job_id] =
           CacheEntry(details.reply_attempts_in_session + 1
                        >= MAX_REPLY_ATTEMPTS_PER_SESSION,
                      details.reply_attempts_in_session + 1)]
    ELSE C

\* Lines 256-259 and 313-316: the job is not tried again in this session.
CacheAttempted(C, job_id, attempts) ==
  IF job_id \in DOMAIN C
    THEN [C EXCEPT ![job_id] = CacheEntry(TRUE, attempts)]
    ELSE C

\* A test that takes any return of post_reply, None included, as success.
ReplyPostedSuccessfully_on_any_return(outcome) == outcome # "raised"

\* Lines 290 and 303, "if response:": post_reply returned a response object.
ReplyPostedSuccessfully(outcome) == outcome = "response"

\* Lines 262-287: what happens to the video before the reply is posted.  An
\* 'error' job has none; for a 'completed' job the file is missing, or
\* upload_video returns a media id, returns None, or an exception is raised
\* in the upload (upload_video catches it and returns None,
\* twitter_client.py 520-528; line 285 catches what is left).  In every
\* case a post_reply call follows.
UploadOutcomes(details) ==
  IF details.db_status = "completed"
    THEN {"no_file", "media_id", "none", "raised"}
    ELSE {"no_upload"}

\* An except clause that counts the exception as a failed delivery.
CacheAfterException_counted(C, details) == CacheAfterFailure(C, details)

\* Lines 326-332: the except clause of the job's try block logs and passes;
\* the cache is as the exception found it.
CacheAfterException(C, details) == C

\* An except clause placed around the for loop: the exception ends the cycle.
AfterException_ending_cycle(p) == PollSleep

\* Lines 326-332 are inside the for loop of line 239: after the except
\* clause the loop variable moves on.
AfterException(p) == NextJob(p)

\* Lines 262-322 for one job whose limit is not reached, up to the return
\* of twitter_client.post_reply: the upload, if any, with the given
\* outcome, then one post_reply call (for either status, with or without
\* media), which returns a response, returns None, or raises.
poll_reply_attempt(upload, outcome) ==
  /\ poll.pc = "reply"
  /\ LET d == Head(poll.todo)
     IN /\ ~LimitReached(d)
        /\ upload \in UploadOutcomes(d)
        /\ calls' = [calls EXCEPT ![d.job_id] = UpTo(@ + 1, MaxCalls)]
        /\ posted' = IF outcome = "response"
                       THEN [posted EXCEPT ![d.job_id] = UpTo(@ + 1, MaxPosted)]
                       ELSE posted
        /\ poll' = IF ReplyPostedSuccessfully(outcome)
                     THEN [poll EXCEPT !.pc = "mark"]
                     ELSE IF outcome = "raised" THEN AfterException(poll)
                     ELSE NextJob(poll)
        /\ cache' = IF outcome = "none" THEN CacheAfterFailure(cache, d)
                    ELSE IF outcome = "raised" THEN CacheAfterException(cache, d)
                    ELSE cache
  /\ UNCHANGED <<jobs, job_updates, clock, nextId, queue, hm,
                 w,  call, deliveries, pr, lm>>

\* Lines 239-332 for one job up to the return of twitter_client.post_reply:
\* the limit test, then the attempt.
poll_reply ==
  /\ poll.pc = "reply"
  /\ LET d == Head(poll.todo)
     IN IF LimitReached(d)
          THEN /\ cache' = CacheAttempted(cache, d.job_id, d.reply_attempts_in_session)
               /\ poll' = NextJob(poll)
               /\ UNCHANGED <<posted, calls, pr, lm>>
          ELSE \E upload \in UploadOutcomes(d),
                  outcome \in {"response", "none", "raised"} :
                 poll_reply_attempt(upload, outcome)
  /\ UNCHANGED <<jobs, job_updates, clock, nextId, queue, hm,
                 w,  call, deliveries, pr, lm>>

\* Lines 291-296 / 303-308 and 311-316 after a response: the store is told,
\* then the cache.
poll_mark_returns ==
  /\ poll.pc = "mark"
  /\ LET d == Head(poll.todo)
     IN /\ jobs' = mark_job_reply_posted(jobs, d.job_id)
        /\ cache' = CacheAttempted(cache, d.job_id,
                       IF d.job_id \in DOMAIN cache
                         THEN cache[d.job_id].reply_attempts_in_session ELSE 0)
  /\ poll' = NextJob(poll)
  /\ UNCHANGED <<job_updates, clock, nextId, queue, hm,
                 posted, calls, w, call, deliveries, pr, lm>>

\* Lines 293 / 306 when mark_job_reply_posted raises: nothing is committed
\* and the except clause of line 326 is entered.
poll_mark_raises ==
  /\ poll.pc = "mark"
  /\ jobs' = jobs
  /\ cache' = CacheAfterException(cache, Head(poll.todo))
  /\ poll' = AfterException(poll)
  /\ UNCHANGED <<job_updates, clock, nextId, queue, hm,
                 posted, calls, w, call, deliveries, pr, lm>>

\* The store call after a response, with either result.
poll_mark == poll_mark_returns \/ poll_mark_raises

\* The bot process dies at any point and is started again: its threads and
\* active_jobs_cache start afresh, the store and the broker are kept.
restart ==
  /\ hm # HmIdle \/ poll # PollSleep \/ cache # <<>>
  /\ hm' = HmIdle
  /\ poll' = PollSleep
  /\ cache' = <<>>
  /\ calls' = [j \in JobIds |-> 0]
  /\ UNCHANGED <<jobs, job_updates, clock, nextId, queue,
                 posted, w,  call, deliveries, pr, lm>>

\* ------------------------------------------------------- process_job (Celery)
\* What a stage call can do at its call site in process_job, read off the
\* stage's body: generate_explanation, generate_speech,
\* visuals_service.create_explanatory_visuals and assemble_final_video return
\* or raise; create_celebrity_video catches every Exception and returns a
\* path (the lip-synced video or the placeholder).  (Line 40 passes four
\* arguments to tts_service.generate_speech, which takes three, so its
\* call raises in this revision; both outcomes are kept at the call site
\* so that the steps after it are covered.)
StageOutcomes(stage) ==
  IF stage = "create_celebrity_video" THEN {"returned"} ELSE {"returned", "raised"}

\* The same after some stages have returned a substitute for their result
\* (w.substitute): generate_speech looks the persona up again and subscripts
\* the None it finds (tts_service.py 28-29), so for a persona that
\* generate_explanation did not find it raises.
StageOutcomesAfter(substitute, stage) ==
  IF stage = "generate_speech" /\ "generate_explanation" \in substitute
    THEN {"raised"}
    ELSE StageOutcomes(stage)

\* The worker takes a task: lines 30-36, up to the call of stage 1.
process_job_start ==
  /\ w.pc = "idle"
  /\ \E j \in queue :
       /\ deliveries[j] < MaxDeliveries
       /\ deliveries' = [deliveries EXCEPT ![j] = @ + 1]
       /\ w' = [WIdle EXCEPT !.pc = "generate_explanation", !.job = j,
                             !.invoked = {"generate_explanation"}]
  /\ UNCHANGED <<jobs, job_updates, clock, nextId, queue, hm, cache, poll,
                 posted, calls,  call, pr, lm>>

\* The stage that runs at each position, the position of the status write
\* that follows its return, and the next stage.
AfterStage(pc) ==
  CASE pc = "generate_explanation" -> "commit_explanation"
    [] pc = "generate_speech" -> "commit_speech"
    [] pc = "assemble_final_video" -> "commit_completed"

\* Lines 36-37, 40-41, 68-72: a sequential stage returns and update_job_status
\* reads datetime.now(); or the stage raises, and line 84 reads it.
process_job_stage ==
  /\ w.pc \in {"generate_explanation", "generate_speech", "assemble_final_video"}
  /\ \E outcome \in StageOutcomesAfter(w.substitute, w.pc) :
       w' = IF outcome = "returned"
              THEN [w EXCEPT !.pc = AfterStage(w.pc), !.now = clock[w.job],
                             !.returned = @ \cup {w.pc}]
              ELSE [w EXCEPT !.pc = "commit_error", !.now = clock[w.job], !.exc = w.pc]
  /\ Tick(w.job, 1)
  /\ UNCHANGED <<jobs, job_updates, nextId, queue, hm, cache, poll,
                 posted, calls,  call, deliveries, pr, lm>>

\* The progress writes of lines 37, 41, 44, 64, 67: message and next position.
ProgressMessage(pc) ==
  CASE pc = "commit_explanation" -> "Generated explanation content"
    [] pc = "commit_speech" -> "Generated speech"
    [] pc = "commit_generating" -> "Generating visuals content"
    [] pc = "commit_generated" -> "Generated visuals"
    [] pc = "commit_assembling" -> "Assembling final video"

\* An order in which the parallel step follows the explanation directly.
AfterProgress_skipping_speech(pc) ==
  CASE pc = "commit_explanation" -> "now_generating"
    [] pc = "commit_speech" -> "now_generating"
    [] pc = "commit_generating" -> "submit_celeb"
    [] pc = "commit_generated" -> "now_assembling"
    [] pc = "commit_assembling" -> "assemble_final_video"

AfterProgress(pc) ==
  CASE pc = "commit_explanation" -> "generate_speech"
    [] pc = "commit_speech" -> "now_generating"
    [] pc = "commit_generating" -> "submit_celeb"
    [] pc = "commit_generated" -> "now_assembling"
    [] pc = "commit_assembling" -> "assemble_final_video"

\* The status process_job writes while the pipeline is running.
ProgressStatus == "processing"

process_job_progress ==
  /\ w.pc \in {"commit_explanation", "commit_speech", "commit_generating",
               "commit_generated", "commit_assembling"}
  /\ Commit(update_job_status(jobs, job_updates, w.job, ProgressStatus,
                              ProgressMessage(w.pc), NULLTEXT, NULLTEXT, w.now))
  /\ w' = [w EXCEPT !.pc = AfterProgress(w.pc),
                    !.invoked = IF AfterProgress(w.pc) \in
                                     {"generate_speech", "assemble_final_video"}
                                  THEN @ \cup {AfterProgress(w.pc)} ELSE @]
  /\ UNCHANGED <<clock, nextId, queue, hm, cache, poll,
                 posted, calls,  call, deliveries, pr, lm>>

\* update_job_status line 116 for the writes of lines 44 and 67, which
\* follow another write directly.
process_job_now ==
  /\ w.pc \in {"now_generating", "now_assembling"}
  /\ w' = [w EXCEPT !.pc = IF w.pc = "now_generating" THEN "commit_generating"
                                                      ELSE "commit_assembling",
                    !.now = clock[w.job]]
  /\ Tick(w.job, 1)
  /\ UNCHANGED <<jobs, job_updates, nextId, queue, hm, cache, poll,
                 posted, calls,  call, deliveries, pr, lm>>

\* Lines 47-58: executor.submit starts a pool thread for each branch.
process_job_submit ==
  /\ w.pc \in {"submit_celeb", "submit_visuals"}
  /\ w' = IF w.pc = "submit_celeb"
            THEN [w EXCEPT !.pc = "submit_visuals", !.celeb = "running",
                           !.invoked = @ \cup {"create_celebrity_video"}]
            ELSE [w EXCEPT !.pc = "join_celeb", !.visuals = "running",
                           !.invoked = @ \cup {"create_explanatory_visuals"}]
  /\ UNCHANGED <<jobs, job_updates, clock, nextId, queue, hm, cache, poll,
                 posted, calls,  call, deliveries, pr, lm>>

\* The pool thread running create_celebrity_video finishes.
celeb_thread ==
  /\ w.celeb = "running"
  /\ \E outcome \in StageOutcomes("create_celebrity_video") :
       w' = [w EXCEPT !.celeb = outcome,
                      !.returned = IF outcome = "returned"
                                     THEN @ \cup {"create_celebrity_video"} ELSE @]
  /\ UNCHANGED <<jobs, job_updates, clock, nextId, queue, hm, cache, poll,
                 posted, calls,  call, deliveries, pr, lm>>

\* The pool thread running create_explanatory_visuals finishes.
visuals_thread ==
  /\ w.visuals = "running"
  /\ \E outcome \in StageOutcomes("create_explanatory_visuals") :
       w' = [w EXCEPT !.visuals = outcome,
                      !.returned = IF outcome = "returned"
                                     THEN @ \cup {"create_explanatory_visuals"} ELSE @]
  /\ UNCHANGED <<jobs, job_updates, clock, nextId, queue, hm, cache, poll,
                 posted, calls,  call, deliveries, pr, lm>>

\* A result() and a pool exit that do not block.
Done_without_waiting(future) == TRUE

\* A future is done: its pool thread has returned or raised.
Done(future) == future # "running"

\* Whether the join may go on to line 64: both futures gave a result.
JoinSucceeds(celeb, visuals) == celeb = "returned" /\ visuals = "returned"

\* Lines 61-62: celeb_task.result(), then visuals_task.result(); each blocks
\* until its future is done and re-raises the branch's exception.  After
\* the second, line 64 reads datetime.now().
process_job_join ==
  /\ \/ /\ w.pc = "join_celeb"
        /\ Done(w.celeb)
        /\ w' = IF w.celeb = "returned"
                  THEN [w EXCEPT !.pc = "join_visuals"]
                  ELSE [w EXCEPT !.pc = "exit_pool", !.exc = "create_celebrity_video"]
        /\ UNCHANGED clock
     \/ /\ w.pc = "join_visuals"
        /\ Done(w.visuals)
        /\ w' = IF JoinSucceeds(w.celeb, w.visuals)
                  THEN [w EXCEPT !.pc = "commit_generated", !.now = clock[w.job]]
                  ELSE [w EXCEPT !.pc = "exit_pool", !.exc = "create_explanatory_visuals"]
        /\ Tick(w.job, IF JoinSucceeds(w.celeb, w.visuals) THEN 1 ELSE 0)
  /\ UNCHANGED <<jobs, job_updates, nextId, queue, hm, cache, poll,
                 posted, calls,  call, deliveries, pr, lm>>

\* Line 45 left by an exception: ThreadPoolExecutor.__exit__ waits for both
\* pool threads; then line 84 reads datetime.now().
process_job_exit_pool ==
  /\ w.pc = "exit_pool"
  /\ Done(w.celeb) /\ Done(w.visuals)
  /\ w' = [w EXCEPT !.pc = "commit_error", !.now = clock[w.job]]
  /\ Tick(w.job, 1)
  /\ UNCHANGED <<jobs, job_updates, nextId, queue, hm, cache, poll,
                 posted, calls,  call, deliveries, pr, lm>>

\* A terminal write that passes the video's URL as result_url.
CompletedResultUrl_passing_url(job_id) == "/api/jobs/id/video"

\* The result_url argument of the write of line 72: none is passed.
CompletedResultUrl(job_id) == NULLTEXT

\* Line 72: the terminal write after composition.
process_job_completed ==
  /\ w.pc = "commit_completed"
  /\ Commit(update_job_status(jobs, job_updates, w.job, "completed",
                              "Video generated successfully",
                              CompletedResultUrl(w.job), NULLTEXT, w.now))
  /\ w' = [w EXCEPT !.pc = "returned"]
  /\ UNCHANGED <<clock, nextId, queue, hm, cache, poll,
                 posted, calls,  call, deliveries, pr, lm>>

\* Lines 82-85: the terminal write of the except clause; str(e) is modelled
\* by the name of the stage that raised.
process_job_error ==
  /\ w.pc = "commit_error"
  /\ Commit(update_job_status(jobs, job_updates, w.job, "error",
                              "Processing error", NULLTEXT, w.exc, w.now))
  /\ w' = [w EXCEPT !.pc = "raised"]
  /\ UNCHANGED <<clock, nextId, queue, hm, cache, poll,
                 posted, calls,  call, deliveries, pr, lm>>

\* task_acks_late: the task is acknowledged once process_job has returned
\* or raised, and the worker is free for the next task.
process_job_ack ==
  /\ w.pc \in {"returned", "raised"}
  /\ queue' = queue \ {w.job}
  /\ w' = WIdle
  /\ UNCHANGED <<jobs, job_updates, clock, nextId, hm, cache, poll,
                 posted, calls,  call, deliveries, pr, lm>>

\* ------------------------------------------- job_service (POST /api/jobs)
\* The stage functions job_service imports: sieve_service's
\* create_celebrity_video and create_explanatory_visuals both catch every
\* Exception and return.
ApiStageOutcomes(stage) ==
  IF stage \in {"create_celebrity_video", "create_explanatory_visuals"}
    THEN {"returned"} ELSE {"returned", "raised"}

\* A status write of _process_job.
ApiWrite(status, message) ==
  [status |-> status, message |-> message, result_url |-> NULLTEXT, error |-> NULLTEXT]

\* Consecutive update_job_status calls of the job's thread, each reading
\* datetime.now() after the one before committed.  The thread is the only
\* writer of its job, so no other write of the job falls between them.
RECURSIVE WriteAll(_, _, _, _)
WriteAll(db, job_id, writes, now) ==
  IF writes = <<>> THEN db
  ELSE WriteAll(update_job_status(db.jobs, db.job_updates, job_id, Head(writes).status,
                                  Head(writes).message, Head(writes).result_url,
                                  Head(writes).error, now),
                job_id, Tail(writes), now + 1)

\* The stage calls of _process_job, in order; "media" stands for the two
\* pool threads and their join (lines 71-90).
ApiStages == <<"generate_explanation", "generate_speech", "media", "assemble_final_video">>

ApiOutcomesAt(stage) ==
  IF stage = "media"
    THEN ApiStageOutcomes("create_celebrity_video")
           \cap ApiStageOutcomes("create_explanatory_visuals")
    ELSE ApiStageOutcomes(stage)

\* The writes of _process_job before its first stage call and after the
\* return of each stage.
ApiWritesAfter(stage) ==
  CASE stage = "start" -> <<ApiWrite("generating_explanation", "Creating explanation script...")>>
    [] stage = "generate_explanation" ->
         <<ApiWrite("explanation_ready", "Explanation script completed"),
           ApiWrite("creating_audio", "Converting to speech...")>>
    [] stage = "generate_speech" ->
         <<ApiWrite("audio_ready", "Voice generation complete"),
           ApiWrite("creating_media", "Generating video and visuals...")>>
    [] stage = "media" ->
         <<ApiWrite("celeb_video_ready", "Celebrity video created"),
           ApiWrite("visuals_ready", "Supporting visuals created"),
           ApiWrite("compositing", "Creating final video...")>>
    [] stage = "assemble_final_video" ->
         <<[status |-> "completed", message |-> "Celebrity explanation video ready!",
            result_url |-> "/api/jobs/id/video", error |-> NULLTEXT]>>

\* Line 109: the write of the except clause.
ApiErrorWrite(stage) ==
  <<[status |-> "error", message |-> "Processing error", result_url |-> NULLTEXT,
     error |-> stage]>>

\* All writes of one run of _process_job in which the stages before the
\* k-th return and the k-th has the given outcome.
RECURSIVE ApiWritesUpTo(_)
ApiWritesUpTo(k) ==
  IF k = 0 THEN ApiWritesAfter("start")
  ELSE ApiWritesUpTo(k - 1) \o ApiWritesAfter(ApiStages[k])

ApiRun(k, outcome) ==
  IF outcome = "returned" THEN ApiWritesUpTo(k)
  ELSE ApiWritesUpTo(k - 1) \o ApiErrorWrite(ApiStages[k])

\* create_job of job_service (lines 15-34): the row without a tweet, then
\* the job's thread is started.
api_create_job ==
  /\ nextId <= MaxJobs
  /\ Commit(create_job(jobs, job_updates, nextId, "p", "q", NULL, NULL, clock[nextId]))
  /\ Tick(nextId, 1)
  /\ nextId' = nextId + 1
  /\ UNCHANGED <<queue, hm, cache, poll, posted, calls, w, call, deliveries, pr, lm>>

\* A job of the API whose thread has not written yet.
ApiThreadPending(J, job_id) ==
  /\ job_id \in DOMAIN J
  /\ J[job_id].original_tweet_id = NULL
  /\ J[job_id].status = "created"

\* _process_job (lines 51-109), the whole run of the job's thread: the
\* stages return up to one that raises, or all return.  The thread is the
\* only writer of its job, and no other process selects an API job's row
\* (the bot's queries match on original_tweet_id), so its steps are taken
\* together.
api_process_job ==
  /\ \E job_id \in JobIds, k \in 1..Len(ApiStages) :
       /\ ApiThreadPending(jobs, job_id)
       /\ \E outcome \in ApiOutcomesAt(ApiStages[k]) :
            /\ outcome = "returned" => k = Len(ApiStages)
            /\ Commit(WriteAll([jobs |-> jobs, job_updates |-> job_updates],
                               job_id, ApiRun(k, outcome), clock[job_id]))
            /\ Tick(job_id, Len(ApiRun(k, outcome)))
  /\ UNCHANGED <<nextId, queue, hm, cache, poll, posted, calls, w, call, deliveries, pr, lm>>

\* ------------------------------------------------------------ specification
Next ==
  \/ \E t \in Tweets : mention(t)
  \/ handle_mention_check
  \/ handle_mention_create
  \/ handle_mention_send
  \/ handle_mention_now
  \/ handle_mention_update
  \/ handle_mention_dispatch_failed
  \/ handle_mention_cache
  \/ poll_query
  \/ poll_reply
  \/ poll_mark
  \/ restart
  \/ process_job_start
  \/ process_job_stage
  \/ process_job_progress
  \/ process_job_now
  \/ process_job_submit
  \/ celeb_thread
  \/ visuals_thread
  \/ process_job_join
  \/ process_job_exit_pool
  \/ process_job_completed
  \/ process_job_error
  \/ process_job_ack
  \/ api_create_job
  \/ api_process_job

Spec == Init /\ [][Next]_vars

\* ------------------------------------------------- the store, called directly
\* The number of job rows that carry the tweet id.
RowsOfTweet(J, tweet_id) ==
  Cardinality({id \in DOMAIN J : J[id].original_tweet_id = tweet_id})

\* A caller of db.create_job with any job id and any origin.
store_create_job ==
  /\ call.n < MaxStoreCalls
  /\ \E job_id \in JobIds, tweet \in {NULL} \cup Tweets :
       /\ call' = [NoCall EXCEPT !.op = "create_job", !.job_id = job_id, !.tweet = tweet,
                                 !.raised = create_job_raises(jobs, job_id),
                                 !.rows_before = RowsOfTweet(jobs, tweet),
                                 !.n = call.n + 1]
       /\ IF create_job_raises(jobs, job_id)
            THEN UNCHANGED <<jobs, job_updates, clock, pr, lm>>
            ELSE /\ Commit(create_job(jobs, job_updates, job_id, "p", "q", tweet, tweet,
                                      clock[job_id]))
                 /\ Tick(job_id, 1)
  /\ UNCHANGED <<nextId, queue, hm, cache, poll, posted, calls, w, deliveries, pr, lm>>

\* A caller of db.update_job_status.
store_update_job_status ==
  /\ call.n < MaxStoreCalls
  /\ \E job_id \in JobIds, status \in {"processing", "completed", "error"} :
       /\ call' = [NoCall EXCEPT !.op = "update_job_status", !.job_id = job_id,
                                 !.n = call.n + 1]
       /\ Commit(update_job_status(jobs, job_updates, job_id, status, NULLTEXT,
                                   IF status = "completed" THEN "/api/jobs/id/video"
                                                           ELSE NULLTEXT,
                                   IF status = "error" THEN "failure" ELSE NULLTEXT,
                                   clock[job_id]))
       /\ Tick(job_id, 1)
  /\ UNCHANGED <<nextId, queue, hm, cache, poll, posted, calls, w, deliveries, pr, lm>>

\* A caller of db.mark_job_reply_posted.
store_mark_job_reply_posted ==
  /\ call.n < MaxStoreCalls
  /\ \E job_id \in JobIds :
       /\ call' = [NoCall EXCEPT !.op = "mark_job_reply_posted", !.job_id = job_id,
                                 !.returned = mark_job_reply_posted_returns(jobs, job_id),
                                 !.posted_before = IF job_id \in DOMAIN jobs
                                                     THEN jobs[job_id].reply_posted ELSE 0,
                                 !.n = call.n + 1]
       /\ jobs' = mark_job_reply_posted(jobs, job_id)
  /\ UNCHANGED <<job_updates, clock, nextId, queue, hm, cache, poll, posted, calls, w, deliveries, pr, lm>>

StoreNext ==
  \/ store_create_job
  \/ store_update_job_status
  \/ store_mark_job_reply_posted

StoreSpec == Init /\ [][StoreNext]_vars

\* ------------------------------------------- faults of the worker and store
\* The positions of process_job at which an update_job_status call of the
\* try block (lines 37, 41, 44, 64, 67, 72) is about to commit.
TryWrites == {"commit_explanation", "commit_speech", "commit_generating",
              "commit_generated", "commit_assembling", "commit_completed"}

\* A failed write that is ignored: process_job goes on as if it had committed.
AfterFailedWrite_ignored(pc) ==
  IF pc = "commit_completed" THEN "returned" ELSE AfterProgress(pc)

\* Where a write of the try block that raises takes process_job: to the
\* except clause of line 82.
AfterFailedWrite(pc) == "commit_error"

\* update_job_status raises inside the try block (the connection closes
\* without commit, so nothing is written); the with block of the pool, if
\* open, has both futures done; the except clause is entered and line 84
\* reads datetime.now().
process_job_write_fails ==
  /\ w.pc \in TryWrites
  /\ w' = [w EXCEPT !.pc = AfterFailedWrite(w.pc), !.now = clock[w.job],
                    !.exc = "update_job_status"]
  /\ Tick(w.job, 1)
  /\ UNCHANGED <<jobs, job_updates, nextId, queue, hm, cache, poll,
                 posted, calls, call, deliveries, pr, lm>>

\* update_job_status raises at line 84: that exception leaves process_job
\* in place of the one being handled, and nothing is written.
process_job_error_write_fails ==
  /\ w.pc = "commit_error"
  /\ w' = [w EXCEPT !.pc = "raised", !.exc = "update_job_status"]
  /\ UNCHANGED <<jobs, job_updates, clock, nextId, queue, hm, cache, poll,
                 posted, calls, call, deliveries, pr, lm>>

\* The worker process is lost during process_job: its pool threads die with
\* it, and the task, not acknowledged (task_acks_late), stays with the
\* broker, which hands it to the restarted worker.
process_job_crash ==
  /\ w.pc # "idle"
  /\ deliveries[w.job] < MaxDeliveries
  /\ w' = WIdle
  /\ UNCHANGED <<jobs, job_updates, clock, nextId, queue, hm, cache, poll,
                 posted, calls, call, deliveries, pr, lm>>

\* The bot and one worker, with loss of the worker process.
RedeliveryNext ==
  \/ \E t \in Tweets : mention(t)
  \/ handle_mention_check
  \/ handle_mention_create
  \/ handle_mention_send
  \/ handle_mention_now
  \/ handle_mention_update
  \/ handle_mention_dispatch_failed
  \/ handle_mention_cache
  \/ poll_query
  \/ poll_reply
  \/ poll_mark
  \/ process_job_start
  \/ process_job_stage
  \/ process_job_progress
  \/ process_job_now
  \/ process_job_submit
  \/ celeb_thread
  \/ visuals_thread
  \/ process_job_join
  \/ process_job_exit_pool
  \/ process_job_completed
  \/ process_job_error
  \/ process_job_ack
  \/ process_job_crash

RedeliverySpec == Init /\ [][RedeliveryNext]_vars

\* Mention intake and one worker, with store failures in process_job.
StoreFaultNext ==
  \/ \E t \in Tweets : mention(t)
  \/ handle_mention_check
  \/ handle_mention_create
  \/ handle_mention_send
  \/ handle_mention_now
  \/ handle_mention_update
  \/ handle_mention_dispatch_failed
  \/ handle_mention_cache
  \/ process_job_start
  \/ process_job_stage
  \/ process_job_progress
  \/ process_job_now
  \/ process_job_submit
  \/ celeb_thread
  \/ visuals_thread
  \/ process_job_join
  \/ process_job_exit_pool
  \/ process_job_completed
  \/ process_job_error
  \/ process_job_ack
  \/ process_job_write_fails
  \/ process_job_error_write_fails

StoreFaultSpec == Init /\ [][StoreFaultNext]_vars

\* handle_mention and one worker, without faults of the store or the stages'
\* environment and without loss of a process.
DispatchNext ==
  \/ \E t \in Tweets : mention(t)
  \/ handle_mention_check
  \/ handle_mention_create
  \/ handle_mention_send
  \/ handle_mention_now
  \/ handle_mention_update
  \/ handle_mention_dispatch_failed
  \/ handle_mention_cache
  \/ process_job_start
  \/ process_job_stage
  \/ process_job_progress
  \/ process_job_now
  \/ process_job_submit
  \/ celeb_thread
  \/ visuals_thread
  \/ process_job_join
  \/ process_job_exit_pool
  \/ process_job_completed
  \/ process_job_error
  \/ process_job_ack

DispatchSpec == Init /\ [][DispatchNext]_vars

\* ------------------------------------------------ the loop, with two jobs
\* Line 199 when get_pending_twitter_replies raises (the store cannot be
\* read): the except clause of line 334 logs, and the loop sleeps.  The
\* failed call is recorded in call.
poll_query_raises ==
  /\ poll.pc = "sleep"
  /\ call' = [NoCall EXCEPT !.op = "get_pending_twitter_replies", !.raised = TRUE,
                            !.n = UpTo(call.n + 1, MaxStoreCalls)]
  /\ poll' = PollSleep
  /\ UNCHANGED <<jobs, job_updates, clock, nextId, queue, hm, cache,
                 posted, calls, w, deliveries, pr, lm>>

\* The steps of the thread that runs poll_job_statuses.
LoopSteps == poll_query \/ poll_query_raises \/ poll_reply \/ poll_mark

\* handle_mention for up to MaxLoopTweets tweets and the loop, with a store
\* that may fail to answer the loop's query; jobs reach a terminal status
\* through a dispatch failure.
LoopNext ==
  \/ \E t \in 1..MaxLoopTweets : mention(t)
  \/ handle_mention_check
  \/ handle_mention_create
  \/ handle_mention_send
  \/ handle_mention_now
  \/ handle_mention_update
  \/ handle_mention_dispatch_failed
  \/ handle_mention_cache
  \/ poll_query
  \/ poll_query_raises
  \/ poll_reply
  \/ poll_mark

\* main.py starts poll_job_statuses in a thread of its own, which the
\* interpreter keeps scheduling.
LoopSpec == Init /\ [][LoopNext]_vars /\ WF_vars(LoopSteps)

\* ----------------------------------------------- stages that do not fail
\* llm_service.py 26-30: personas.json has no entry for persona_id, and
\* generate_explanation returns the string "Persona not found" to line 36 of
\* process_job, which goes on to the write of line 37 with it.
generate_explanation_persona_not_found ==
  /\ w.pc = "generate_explanation"
  /\ w' = [w EXCEPT !.pc = AfterStage(w.pc), !.now = clock[w.job],
                    !.returned = @ \cup {w.pc},
                    !.substitute = @ \cup {w.pc}]
  /\ Tick(w.job, 1)
  /\ UNCHANGED <<jobs, job_updates, nextId, queue, hm, cache, poll,
                 posted, calls, call, deliveries, pr, lm>>

\* sieve_service.py 16-18 and 55-58: the persona's base video is missing,
\* or anything in the lip-sync run raises; create_celebrity_video returns
\* the path of placeholder_celebrity.mp4 to its future.
create_celebrity_video_placeholder ==
  /\ w.celeb = "running"
  /\ w' = [w EXCEPT !.celeb = "returned",
                    !.returned = @ \cup {"create_celebrity_video"},
                    !.substitute = @ \cup {"create_celebrity_video"}]
  /\ UNCHANGED <<jobs, job_updates, clock, nextId, queue, hm, cache, poll,
                 posted, calls, call, deliveries, pr, lm>>

\* handle_mention and one worker, with personas and source videos that may
\* be missing on the worker.
StageFaultNext ==
  \/ \E t \in Tweets : mention(t)
  \/ handle_mention_check
  \/ handle_mention_create
  \/ handle_mention_send
  \/ handle_mention_now
  \/ handle_mention_update
  \/ handle_mention_dispatch_failed
  \/ handle_mention_cache
  \/ process_job_start
  \/ process_job_stage
  \/ generate_explanation_persona_not_found
  \/ process_job_progress
  \/ process_job_now
  \/ process_job_submit
  \/ celeb_thread
  \/ create_celebrity_video_placeholder
  \/ visuals_thread
  \/ process_job_join
  \/ process_job_exit_pool
  \/ process_job_completed
  \/ process_job_error
  \/ process_job_ack

StageFaultSpec == Init /\ [][StageFaultNext]_vars

\* --------------------------------------------------- the system left to run
\* A started handle_mention goes on to its end.
HandleMentionSteps ==
  \/ handle_mention_check
  \/ handle_mention_create
  \/ handle_mention_send
  \/ handle_mention_now
  \/ handle_mention_update
  \/ handle_mention_dispatch_failed
  \/ handle_mention_cache

\* The worker's main thread: it takes tasks and runs process_job.
WorkerSteps ==
  \/ process_job_start
  \/ process_job_stage
  \/ process_job_progress
  \/ process_job_now
  \/ process_job_submit
  \/ process_job_join
  \/ process_job_exit_pool
  \/ process_job_completed
  \/ process_job_error
  \/ process_job_ack

\* The polling thread: while True ... time.sleep(poll_interval).
PollSteps ==
  \/ poll_query
  \/ poll_reply
  \/ poll_mark

\* No process is lost and no store write fails.
LiveNext ==
  \/ \E t \in Tweets : mention(t)
  \/ HandleMentionSteps
  \/ WorkerSteps
  \/ celeb_thread
  \/ visuals_thread
  \/ PollSteps
  \/ api_create_job
  \/ api_process_job

\* Every thread that can take a step eventually does (every stage call
\* returns or raises); a reply that is attempted again and again is
\* eventually posted, and its mark_job_reply_posted eventually commits.
LiveSpec ==
  /\ Init
  /\ [][LiveNext]_vars
  /\ WF_vars(HandleMentionSteps)
  /\ WF_vars(WorkerSteps)
  /\ WF_vars(celeb_thread)
  /\ WF_vars(visuals_thread)
  /\ WF_vars(api_process_job)
  /\ WF_vars(PollSteps)
  /\ SF_vars(poll_reply /\ poll'.pc = "mark")
  /\ SF_vars(poll_mark /\ jobs' # jobs)

\* ------------------------------------------------- post_reply, one call
\* twitter_client.py line 355 (the default of TWITTER_POST_MAX_RETRIES) and
\* line 358.
MAX_POST_RETRIES == 3
NON_RETRYABLE_STATUS_CODES == {400, 401, 403, 404}

\* The HTTP status an HTTPException of tweepy can carry in e.response; an
\* exception whose e.response is None has status NULL.
StatusCodes == NON_RETRYABLE_STATUS_CODES \cup {429, 500}

\* What one api_v2.create_tweet of line 384 does: it returns a response with
\* or without data["id"], raises a TweepyException, or raises another
\* Exception.
CreateTweetOutcomes ==
  {[kind |-> "response", id |-> b, status |-> NULL] : b \in BOOLEAN}
    \cup {[kind |-> "TweepyException", id |-> FALSE, status |-> s] :
            s \in StatusCodes \cup {NULL}}
    \cup {[kind |-> "Exception", id |-> FALSE, status |-> NULL]}

\* Line 386.
HasTweetId(outcome) == outcome.kind = "response" /\ outcome.id

\* Lines 407-408: the status of the exception is one of the codes of line 358.
IsNonRetryable_never(outcome) == FALSE
IsNonRetryable(outcome) ==
  outcome.kind = "TweepyException" /\ outcome.status \in NON_RETRYABLE_STATUS_CODES

\* Lines 420 and 429: the test that decides between the sleep and the
\* return None of an except clause.
AttemptsRemain(attempt) == attempt < MAX_POST_RETRIES - 1

\* Line 381: the for statement takes the next value of range(MAX_POST_RETRIES),
\* or the range is exhausted and lines 436-437 return None.
NextAttempt(p) ==
  IF p.attempt + 1 < MAX_POST_RETRIES
    THEN [p EXCEPT !.pc = "create_tweet", !.attempt = @ + 1]
    ELSE [p EXCEPT !.pc = "returned", !.result = "none"]

\* Lines 373-381: without the v2 client post_reply returns None at once;
\* otherwise it builds the parameters and enters the loop.
post_reply_call ==
  /\ pr.pc = "idle"
  /\ \E api_v2 \in BOOLEAN :
       pr' = IF ~api_v2 THEN [pr EXCEPT !.pc = "returned", !.result = "none"]
             ELSE IF 0 < MAX_POST_RETRIES THEN [pr EXCEPT !.pc = "create_tweet"]
             ELSE [pr EXCEPT !.pc = "returned", !.result = "none"]
  /\ UNCHANGED <<jobs, job_updates, clock, nextId, queue, hm, cache, poll,
                 posted, calls, w, call, deliveries, lm>>

\* Lines 382-434: one attempt. A response with an id is returned; a response
\* without one falls through to the next iteration; a TweepyException with a
\* non-retryable status returns None; any other exception sleeps when
\* attempts remain and returns None when they do not.
post_reply_create_tweet ==
  /\ pr.pc = "create_tweet"
  /\ \E outcome \in CreateTweetOutcomes :
       LET p == [pr EXCEPT !.outcomes = Append(@, outcome)]
       IN  pr' = IF HasTweetId(outcome)
                   THEN [p EXCEPT !.pc = "returned", !.result = "response"]
                 ELSE IF outcome.kind = "response" THEN NextAttempt(p)
                 ELSE IF IsNonRetryable(outcome)
                   THEN [p EXCEPT !.pc = "returned", !.result = "none"]
                 ELSE IF AttemptsRemain(p.attempt) THEN [p EXCEPT !.pc = "sleep"]
                 ELSE [p EXCEPT !.pc = "returned", !.result = "none"]
  /\ UNCHANGED <<jobs, job_updates, clock, nextId, queue, hm, cache, poll,
                 posted, calls, w, call, deliveries, lm>>

\* Lines 422 and 431: time.sleep(POST_RETRY_DELAY_SECONDS) returns and the
\* loop goes on.
post_reply_sleep ==
  /\ pr.pc = "sleep"
  /\ pr' = NextAttempt(pr)
  /\ UNCHANGED <<jobs, job_updates, clock, nextId, queue, hm, cache, poll,
                 posted, calls, w, call, deliveries, lm>>

PostReplyNext == post_reply_call \/ post_reply_create_tweet \/ post_reply_sleep

\* create_tweet and time.sleep return: a step of the call that can be taken
\* is taken.
PostReplySpec == Init /\ [][PostReplyNext]_vars /\ WF_vars(PostReplyNext)

\* ---------------------------------------------------- listen_for_mentions
\* The orders in which a response can list the tweets of S.
Orders(S) ==
  {f \in [1..Cardinality(S) -> S] :
     \A i, k \in 1..Cardinality(S) : i # k => f[i] # f[k]}

\* get_users_mentions with since_id, lines 269-275: tweets with an id greater
\* than since_id; without a since_id (None) any of the bot's mentions.
MentionsSince(since_id) == {t \in MentionIds : t > since_id}

\* Lines 298-299, 311-312 and 321-322: the id replaces
\* last_processed_mention_id when it is greater than (last or 0); None is NULL.
Advance(last, id) == IF id > last THEN id ELSE last

\* Lines 315-322: the id after a callback that raised.
LastAfterRaise_unchanged(last, id) == last
LastAfterRaise(last, id) == Advance(last, id)

\* _write_since_id, lines 170-181: the file takes the id, or the write fails
\* and is only logged.
WriteSinceId(file, id, written) == IF written THEN id ELSE file

\* Lines 196-261: without the v2 client or the bot's user the function raises
\* RuntimeError. Otherwise last_processed_mention_id is the content of the
\* since_id file, and without one the id of the newest mention the API
\* returns, which is written to the file, or None.
listen_for_mentions_start ==
  /\ lm.pc = "start"
  /\ \E ok, written \in BOOLEAN, content, newest \in MentionIds \cup {NULL} :
       lm' = IF ~ok THEN [lm EXCEPT !.pc = "raised"]
             ELSE IF content # NULL
               THEN [lm EXCEPT !.pc = "sleep", !.last = content, !.file = content]
             ELSE IF newest # NULL
               THEN [lm EXCEPT !.pc = "sleep", !.last = newest,
                               !.file = WriteSinceId(NULL, newest, written)]
             ELSE [lm EXCEPT !.pc = "sleep"]
  /\ UNCHANGED <<jobs, job_updates, clock, nextId, queue, hm, cache, poll,
                 posted, calls, w, call, deliveries, pr>>

\* Lines 261 and 352: time.sleep returns and a polling cycle starts.
listen_for_mentions_wake ==
  /\ lm.pc = "sleep"
  /\ lm' = [lm EXCEPT !.pc = "fetch", !.fetched = {}, !.raised = {}]
  /\ UNCHANGED <<jobs, job_updates, clock, nextId, queue, hm, cache, poll,
                 posted, calls, w, call, deliveries, pr>>

\* Lines 269-291: the response lists mentions newer than
\* last_processed_mention_id, each written by the bot itself or by someone
\* else; the loop takes them in the reverse of the response's order.
listen_for_mentions_fetch ==
  /\ lm.pc = "fetch"
  /\ \E S \in SUBSET MentionsSince(lm.last) :
       \E order \in Orders(S), own \in SUBSET S :
         lm' = [lm EXCEPT !.pc = "loop", !.fetched = S,
                          !.todo = [i \in 1..Cardinality(S) |->
                                      [id |-> order[i], own |-> order[i] \in own]]]
  /\ UNCHANGED <<jobs, job_updates, clock, nextId, queue, hm, cache, poll,
                 posted, calls, w, call, deliveries, pr>>

\* Lines 341-348: get_users_mentions raised; the exception is logged and the
\* cycle ends.
listen_for_mentions_fetch_raises ==
  /\ lm.pc = "fetch"
  /\ lm' = [lm EXCEPT !.pc = "sleep"]
  /\ UNCHANGED <<jobs, job_updates, clock, nextId, queue, hm, cache, poll,
                 posted, calls, w, call, deliveries, pr>>

\* Lines 291-322, one iteration: a tweet of the bot itself is skipped; any
\* other is handed to the callback, which returns or raises. In each case
\* the id advances last_processed_mention_id.
listen_for_mentions_tweet ==
  /\ lm.pc = "loop"
  /\ lm.todo # <<>>
  /\ LET tweet == Head(lm.todo)
     IN  \/ /\ tweet.own
            /\ lm' = [lm EXCEPT !.todo = Tail(@), !.last = Advance(@, tweet.id)]
         \/ /\ ~tweet.own
            /\ \E raised \in BOOLEAN :
                 lm' = [lm EXCEPT !.todo = Tail(@),
                                  !.handed[tweet.id] = UpTo(@ + 1, 2),
                                  !.raised = IF raised THEN @ \cup {tweet.id} ELSE @,
                                  !.last = IF raised THEN LastAfterRaise(@, tweet.id)
                                           ELSE Advance(@, tweet.id)]
  /\ UNCHANGED <<jobs, job_updates, clock, nextId, queue, hm, cache, poll,
                 posted, calls, w, call, deliveries, pr>>

\* Lines 285 and 324-352: after the loop the id is written to the since_id
\* file when the response had data; then the cycle sleeps.
listen_for_mentions_cycle_end ==
  /\ lm.pc = "loop"
  /\ lm.todo = <<>>
  /\ \E written \in BOOLEAN :
       lm' = [lm EXCEPT !.pc = "sleep",
                        !.file = IF lm.fetched # {} /\ lm.last # NULL
                                   THEN WriteSinceId(@, lm.last, written) ELSE @]
  /\ UNCHANGED <<jobs, job_updates, clock, nextId, queue, hm, cache, poll,
                 posted, calls, w, call, deliveries, pr>>

ListenNext ==
  \/ listen_for_mentions_start
  \/ listen_for_mentions_wake
  \/ listen_for_mentions_fetch
  \/ listen_for_mentions_fetch_raises
  \/ listen_for_mentions_tweet
  \/ listen_for_mentions_cycle_end

ListenSpec == Init /\ [][ListenNext]_vars

\* ------------------------------------------------------------------ claims
\* C1: for every job, at most one reply is ever posted to its originating
\* tweet, also when the bot process dies between the post and the store
\* write, and when mark_job_reply_posted raises after a successful post.
C1_AtMostOneReplyPerJob == \A j \in JobIds : posted[j] <= 1

\* C2: in one bot process the loop calls post_reply for a job at most
\* MAX_REPLY_ATTEMPTS_PER_SESSION times.
C2_AttemptsBounded == \A j \in JobIds : calls[j] <= MAX_REPLY_ATTEMPTS_PER_SESSION

\* C3: after handle_mention has run any number of times for a tweet (also
\* across restarts of the bot), the store holds at most one job row with
\* that original_tweet_id.
C3_OneJobPerTweet == \A t \in Tweets : RowsOfTweet(jobs, t) <= 1

\* A delivery of a tweet whose job exists already, and has even been
\* answered, is at the duplicate check.
C3_Witness ==
  /\ hm.pc = "check"
  /\ \E j \in DOMAIN jobs :
       jobs[j].original_tweet_id = hm.tweet /\ jobs[j].reply_posted = 1

\* C4: a create_job call of the store whose original_tweet_id is not null
\* and equals that of an existing row fails, and no second row is created.
C4_DuplicateOriginRejected ==
  (call.op = "create_job" /\ call.tweet # NULL /\ call.rows_before > 0)
    => (call.raised /\ RowsOfTweet(jobs, call.tweet) = call.rows_before)

\* C5: the status column of every job row equals the status of the job's
\* last log entry in created_at order.
C5_StatusIsLastLogEntry ==
  \A j \in DOMAIN jobs :
    LET log == get_job_updates(job_updates, j)
    IN log # <<>> /\ jobs[j].status = log[Len(log)].status

\* The two branches of the parallel step.
Branches == {"create_celebrity_video", "create_explanatory_visuals"}

\* C6: when one of the two parallel branches raised and the other returned,
\* process_job ends with the job in status 'error', not 'completed', and
\* assemble_final_video was not invoked.
C6_BranchFailureEndsInError ==
  (/\ w.pc = "raised"
   /\ w.exc \in Branches
   /\ {w.celeb, w.visuals} = {"returned", "raised"})
    => (/\ jobs[w.job].status = "error"
        /\ "assemble_final_video" \notin w.invoked)

\* C7: when every stage returned, process_job ends with the job in status
\* 'completed', a result_url that is not null, and a log of at least five
\* entries whose last one (by created_at) has status 'completed'.
C7_SuccessCompletesWithResult ==
  w.pc = "returned"
    => LET log == get_job_updates(job_updates, w.job)
       IN /\ jobs[w.job].status = "completed"
          /\ jobs[w.job].result_url # NULLTEXT
          /\ Len(log) >= 5
          /\ log[Len(log)].status = "completed"

\* The stages that have started when the given stage raises.
StartedBy(stage) ==
  CASE stage = "generate_explanation" -> {"generate_explanation"}
    [] stage = "generate_speech" -> {"generate_explanation", "generate_speech"}
    [] stage \in Branches -> {"generate_explanation", "generate_speech"} \cup Branches
    [] stage = "assemble_final_video" ->
         {"generate_explanation", "generate_speech", "assemble_final_video"} \cup Branches

\* C8: when a stage raised, process_job ends with the job in status 'error',
\* its error column holding the failure's description and its result_url
\* null, and no stage that had not started was invoked afterwards.
C8_StageFailureEndsInError ==
  w.pc = "raised"
    => (/\ jobs[w.job].status = "error"
        /\ jobs[w.job].error = w.exc
        /\ jobs[w.job].result_url = NULLTEXT
        /\ w.invoked \subseteq StartedBy(w.exc))

\* C9: mark_job_reply_posted leaves reply_posted = 1, and returns True only
\* for the call that changed the flag: a second call returns False.
C9_MarkIsIdempotent ==
  (call.op = "mark_job_reply_posted" /\ call.job_id \in DOMAIN jobs)
    => (/\ jobs[call.job_id].reply_posted = 1
        /\ call.returned = (call.posted_before = 0))

\* C10: get_pending_twitter_replies returns exactly the jobs with a tweet
\* id, a terminal status and reply_posted = 0; the loop attempts a reply
\* only for jobs of that result: never for a job without a tweet id, never
\* for one that is not terminal, never for one with reply_posted = 1.
C10_PendingExactlyAndOnlyAttempted ==
  /\ get_pending_twitter_replies(jobs) =
       {j \in DOMAIN jobs : /\ jobs[j].original_tweet_id # NULL
                            /\ jobs[j].status \in Terminal
                            /\ jobs[j].reply_posted = 0}
  /\ \A i \in 1..Len(poll.todo) :
       LET d == poll.todo[i]
       IN /\ d.job_id \in DOMAIN jobs
          /\ d.db_status \in Terminal
          /\ d.original_tweet_id # NULL
          /\ d.original_tweet_id = jobs[d.job_id].original_tweet_id
          /\ jobs[d.job_id].reply_posted = 0
  /\ \A j \in JobIds :
       (calls[j] > 0 \/ posted[j] > 0)
         => /\ j \in DOMAIN jobs
            /\ jobs[j].original_tweet_id # NULL
            /\ \E i \in 1..Len(job_updates[j]) : job_updates[j][i].status \in Terminal

\* The loop is attempting a reply while the store also holds a terminal job
\* of the API (no tweet id) and every status the filter must tell apart.
C10_Witness ==
  /\ poll.pc = "mark"
  /\ \E j \in DOMAIN jobs :
       jobs[j].original_tweet_id = NULL /\ jobs[j].status \in Terminal

\* C11: once a job's reply_posted is 1 it is 1 in every later state,
\* whatever update_job_status, mark_job_reply_posted, handle_mention and
\* re-executions of process_job do.
C11_ReplyPostedNeverResets ==
  [][\A j \in DOMAIN jobs :
       jobs[j].reply_posted = 1 => (j \in DOMAIN jobs' /\ jobs'[j].reply_posted = 1)]_vars

\* The redelivered task is running for a job already answered, and its
\* first status write has been committed.
C11_Witness ==
  /\ w.pc = "generate_speech"
  /\ deliveries[w.job] = 2
  /\ hm = HmIdle
  /\ jobs[w.job].reply_posted = 1
  /\ jobs[w.job].status = "processing"

\* C12: the status of a job dispatched by handle_mention only advances
\* created -> processing -> {completed | error}: once it is 'completed'
\* or 'error' no later write makes it non-terminal, and it never returns
\* to 'created', under every interleaving of handle_mention's write after
\* send_task with the writes of process_job.
C12_TerminalIsAbsorbing ==
  [][\A j \in DOMAIN jobs :
       jobs[j].original_tweet_id # NULL =>
         /\ jobs[j].status \in Terminal => jobs'[j].status \in Terminal
         /\ jobs[j].status = "processing" => jobs'[j].status # "created"]_vars

\* C13: every job that was created and dispatched (its task sent to the
\* broker, or its thread started by the API) eventually has status
\* 'completed' or 'error' and keeps it, when every stage call returns or
\* raises, store writes succeed, no process is lost and the threads are
\* scheduled fairly.
C13_DispatchedJobsEndTerminal ==
  \A j \in JobIds :
    []((j \in queue \/ (j \in DOMAIN jobs /\ jobs[j].original_tweet_id = NULL))
         => <>[](j \in DOMAIN jobs /\ jobs[j].status \in Terminal))

\* C14: every job with a tweet id that reaches a terminal status eventually
\* has reply_posted = 1, when the loop keeps running and a delivery tried
\* often enough succeeds.
C14_TerminalJobsAreAnswered ==
  \A j \in JobIds :
    []((j \in DOMAIN jobs /\ jobs[j].original_tweet_id # NULL
                          /\ jobs[j].status \in Terminal)
         => <>(j \in DOMAIN jobs /\ jobs[j].reply_posted = 1))

\* C15: when a stage raised inside process_job, the failure becomes the
\* 'error' status write and process_job returns normally: it does not end
\* by raising to the Celery worker.
C15_StageFailureDoesNotPropagate ==
  w.exc \in StartedBy("assemble_final_video") => w.pc # "raised"

\* C16: when an update_job_status call of process_job fails, that execution
\* ends by raising to the worker (it neither goes on nor returns normally)
\* and does not record the job as 'completed'.
C16_StoreFailurePropagates ==
  w.exc = "update_job_status"
    => /\ w.pc \in {"commit_error", "raised"}
       /\ jobs[w.job].status # "completed"
       /\ \A i \in 1..Len(job_updates[w.job]) :
            job_updates[w.job][i].status # "completed"

\* The write of 'completed' failed after composition had returned, and
\* process_job has raised.
C16_Witness ==
  /\ w.pc = "raised"
  /\ w.exc = "update_job_status"
  /\ "assemble_final_video" \in w.returned

\* C17: no step of poll_job_statuses changes a job's status, error,
\* result_url or completed_at (or any column but reply_posted) or appends
\* to the status log, whatever the outcome of the delivery.
C17_LoopWritesOnlyReplyPosted ==
  [][PollSteps =>
       /\ job_updates' = job_updates
       /\ DOMAIN jobs' = DOMAIN jobs
       /\ \A j \in DOMAIN jobs :
            jobs'[j] = [jobs[j] EXCEPT !.reply_posted = jobs'[j].reply_posted]]_vars

\* The loop has failed to deliver a reply, then delivered it and marked it.
C17_Witness ==
  /\ poll.pc = "sleep"
  /\ \E j \in DOMAIN jobs :
       calls[j] >= 2 /\ posted[j] = 1 /\ jobs[j].reply_posted = 1

\* C18: while create_celebrity_video or create_explanatory_visuals is still
\* running, process_job is at the submit, the join or the pool exit: the
\* 'Generated visuals' write, the call of assemble_final_video and the
\* terminal 'completed' / 'error' write have not happened, also when the
\* other branch has already failed.
C18_JoinWaitsForBothBranches ==
  (w.celeb = "running" \/ w.visuals = "running")
    => /\ w.pc \in {"submit_visuals", "join_celeb", "join_visuals", "exit_pool"}
       /\ "assemble_final_video" \notin w.invoked
       /\ \A i \in 1..Len(job_updates[w.job]) :
            /\ job_updates[w.job][i].message # "Generated visuals"
            /\ job_updates[w.job][i].status \notin Terminal

\* The visuals branch has failed while the persona video is still being
\* made, and process_job is blocked in the join.
C18_Witness ==
  /\ w.pc = "join_celeb"
  /\ w.visuals = "raised"
  /\ w.celeb = "running"

\* C19: in one execution of process_job, generate_speech is invoked only
\* after generate_explanation returned, the two branch stages only after
\* generate_speech returned, assemble_final_video only after both branches
\* returned, and 'completed' is written only after assemble_final_video
\* returned.
C19_StagesInOrder ==
  /\ "generate_speech" \in w.invoked => "generate_explanation" \in w.returned
  /\ w.invoked \cap Branches # {} => "generate_speech" \in w.returned
  /\ "assemble_final_video" \in w.invoked => Branches \subseteq w.returned
  /\ (w.pc # "idle" /\ \E i \in 1..Len(job_updates[w.job]) :
                         job_updates[w.job][i].status = "completed")
       => "assemble_final_video" \in w.returned

\* An execution in which every stage was invoked and returned has written
\* 'completed'.
C19_Witness ==
  /\ w.pc = "returned"
  /\ w.returned = StartedBy("assemble_final_video")
  /\ jobs[w.job].status = "completed"

\* C20: a job row is never deleted, and its persona_id, query,
\* original_tweet_id and original_tweet_author_id are those create_job gave
\* it: no later step (update_job_status with any status,
\* mark_job_reply_posted, the loop) changes them.
C20_CreationColumnsAreFixed ==
  [][\A j \in DOMAIN jobs :
       /\ j \in DOMAIN jobs'
       /\ jobs'[j].persona_id = jobs[j].persona_id
       /\ jobs'[j].query = jobs[j].query
       /\ jobs'[j].original_tweet_id = jobs[j].original_tweet_id
       /\ jobs'[j].original_tweet_author_id = jobs[j].original_tweet_author_id]_vars

\* A job from a mention has been through its status writes and the loop's
\* mark, next to a job of the API that ended in error.
C20_Witness ==
  /\ \E j \in DOMAIN jobs :
       /\ jobs[j].original_tweet_id # NULL
       /\ jobs[j].status = "completed"
       /\ jobs[j].reply_posted = 1
  /\ \E j \in DOMAIN jobs :
       jobs[j].original_tweet_id = NULL /\ jobs[j].status = "error"

\* s is an initial part of t.
IsPrefix(s, t) == Len(s) <= Len(t) /\ SubSeq(t, 1, Len(s)) = s

\* C21: the status log is append-only: no step changes or removes an entry,
\* so the log of each job, as get_job_updates returns it, is a prefix of
\* the log it returns at any later time.
C21_LogIsAppendOnly ==
  [][\A j \in JobIds :
       IsPrefix(get_job_updates(job_updates, j), get_job_updates(job_updates', j))]_vars

\* The rows of job_updates themselves are only ever added at the end.
C21_RowsAreAppendOnly ==
  [][\A j \in JobIds : IsPrefix(job_updates[j], job_updates'[j])]_vars

\* C22: in every reachable state a job's error field is non-null only if
\* its status is 'error'.
C22_ErrorOnlyWithErrorStatus ==
  \A j \in DOMAIN jobs : jobs[j].error # NULLTEXT => jobs[j].status = "error"

\* C23: in every reachable state a job's result_url is non-null only if
\* its status is 'completed'.
C23_ResultOnlyWithCompletedStatus ==
  \A j \in DOMAIN jobs : jobs[j].result_url # NULLTEXT => jobs[j].status = "completed"

\* A job carries a result_url.
C23_Witness ==
  \E j \in DOMAIN jobs : jobs[j].result_url # NULLTEXT

\* The running execution of process_job has committed a terminal status:
\* the entry carrying the timestamp of its last write is 'completed' or
\* 'error'.
WroteTerminal ==
  \E i \in 1..Len(job_updates[w.job]) :
    /\ job_updates[w.job][i].created_at = w.now
    /\ job_updates[w.job][i].status \in Terminal

\* C24: a process_job task leaves the queue (is acknowledged) only after
\* that execution has written a terminal status; a worker lost before the
\* acknowledgement leaves the task in the queue, and every delivery starts
\* process_job at its first stage for a queued job id.
C24_AckOnlyAfterTerminalWrite ==
  [][/\ (w.pc # "idle" /\ w.job \in queue /\ w.job \notin queue') => WroteTerminal
     /\ (w.pc # "idle" /\ w'.pc = "idle" /\ ~WroteTerminal) => w.job \in queue'
     /\ (w.pc = "idle" /\ w'.pc # "idle") =>
           /\ w'.job \in queue
           /\ w'.pc = "generate_explanation"
           /\ w'.returned = {}]_vars

\* C25: when handle_mention is at its duplicate check with a tweet id that
\* already has a job, the handler returns at once: no job row is created
\* (no id is drawn), no task is sent, and every job row and status log is
\* left as it was.
C25_DuplicateMentionChangesNothing ==
  [][(/\ hm.pc = "check"
      /\ \E j \in DOMAIN jobs : jobs[j].original_tweet_id = hm.tweet
      /\ hm' # hm)
     => (/\ hm' = HmIdle
         /\ jobs' = jobs
         /\ job_updates' = job_updates
         /\ nextId' = nextId
         /\ queue' = queue)]_vars

\* A second delivery of a tweet is at the duplicate check while the task of
\* the tweet's job is still in the queue.
C25_Witness ==
  /\ hm.pc = "check"
  /\ \E j \in DOMAIN jobs : jobs[j].original_tweet_id = hm.tweet /\ j \in queue

\* C26: the attempt counter lives in the bot process only: a restart leaves
\* an empty active_jobs_cache; a cycle's query selects every terminal
\* Twitter-originated job with reply_posted = 0 that the process has no
\* cache entry for, with a count of 0; and the reply step of a job whose
\* count is 0 calls post_reply, whatever happened in earlier processes.
C26_AttemptedAgainAfterRestart ==
  [][/\ restart => cache' = <<>>
     /\ poll_query =>
           \A j \in get_pending_twitter_replies(jobs) :
             j \notin DOMAIN cache =>
               \E i \in 1..Len(poll'.todo) :
                 /\ poll'.todo[i].job_id = j
                 /\ poll'.todo[i].reply_attempts_in_session = 0
     /\ (poll_reply /\ Head(poll.todo).reply_attempts_in_session = 0) =>
           calls'[Head(poll.todo).job_id] >= 1]_vars

\* A job with reply_posted = 0 that earlier bot processes attempted (their
\* deliveries outnumber the calls of the running process) has been
\* attempted by the running process as well.
C26_Witness ==
  \E j \in DOMAIN jobs :
    /\ jobs[j].reply_posted = 0
    /\ calls[j] >= 1
    /\ posted[j] > calls[j]

\* C27: when create_celebrity_video could not produce a video, the run of
\* process_job never writes 'completed' and returns: it ends in the except
\* clause, with 'error' written.
C27_NoPersonaVideoEndsInError ==
  "create_celebrity_video" \in w.substitute
    => (w.pc # "returned" /\ jobs[w.job].status # "completed")

\* C28: when generate_explanation did not find the persona, no later stage
\* is invoked, and the run of process_job ends in the except clause,
\* raised from the explanation stage.
C28_UnknownPersonaStopsAtExplanation ==
  "generate_explanation" \in w.substitute
    => /\ w.invoked = {"generate_explanation"}
       /\ w.pc \in {"returned", "raised"} =>
             (w.pc = "raised" /\ w.exc = "generate_explanation")

\* C29: writes of update_job_status and of mark_job_reply_posted to one row
\* never undo each other, in any interleaving: a step that sets
\* reply_posted changes nothing else in the row, and a step that adds a
\* log entry (a status write) keeps reply_posted and leaves the row with
\* the status and error it wrote.
C29_NoLostUpdate ==
  [][\A j \in DOMAIN jobs :
       /\ jobs'[j].reply_posted # jobs[j].reply_posted
            => jobs'[j] = [jobs[j] EXCEPT !.reply_posted = 1]
       /\ job_updates'[j] # job_updates[j]
            => /\ jobs'[j].reply_posted = jobs[j].reply_posted
               /\ jobs'[j].status = job_updates'[j][Len(job_updates'[j])].status
               /\ jobs'[j].status = "error" => jobs'[j].error # NULLTEXT]_vars

\* The loop is about to mark a job whose row the executor, running again,
\* has written since the loop read it: the last committed entry is the
\* executor's, and the status is no longer the one the loop read.
C29_Witness ==
  /\ poll.pc = "mark"
  /\ w.pc # "idle"
  /\ deliveries[w.job] = 2
  /\ Head(poll.todo).job_id = w.job
  /\ Head(poll.todo).db_status # jobs[w.job].status
  /\ job_updates[w.job][Len(job_updates[w.job])].created_at = w.now

\* C30: every status stored in a job row or in a status-log entry is one of
\* created, processing, completed, error.
C30_StatusIsInClosedSet ==
  \A j \in DOMAIN jobs :
    /\ jobs[j].status \in {"created", "processing", "completed", "error"}
    /\ \A i \in 1..Len(job_updates[j]) :
         job_updates[j][i].status \in {"created", "processing", "completed", "error"}

\* A stage of process_job is executing: a sequential stage has been called
\* and has not returned, or a pool thread is running a branch.
StageExecuting ==
  \/ w.pc \in {"generate_explanation", "generate_speech", "assemble_final_video"}
  \/ w.celeb = "running"
  \/ w.visuals = "running"

\* C31: whenever a stage of a job is executing in process_job, the job's
\* stored status is 'processing'.
C31_ProcessingWhileStageRuns ==
  StageExecuting => jobs[w.job].status = "processing"

\* C32: in every reachable state, reply_posted = 1 for a job implies that
\* post_reply has returned a response for that job before; a delivery that
\* failed or was skipped never sets it.
C32_ReplyPostedOnlyAfterDelivery ==
  \A j \in DOMAIN jobs : jobs[j].reply_posted = 1 => posted[j] >= 1

\* A job was marked after exactly one confirmed delivery, which followed a
\* post_reply call of the same process that did not deliver.
C32_Witness ==
  \E j \in DOMAIN jobs :
    jobs[j].reply_posted = 1 /\ posted[j] = 1 /\ calls[j] >= 2

\* C33: within one process lifetime the reply_attempts_in_session kept for
\* a job in active_jobs_cache never decreases.
C33_AttemptCounterNeverDecreases ==
  [][\A j \in DOMAIN cache \cap DOMAIN cache' :
       cache'[j].reply_attempts_in_session >= cache[j].reply_attempts_in_session]_vars

\* The job whose reply the loop is processing.
ReplyJob == Head(poll.todo).job_id

C35_DispatchFailureEndsInError ==
  /\ \A j \in DOMAIN jobs :
       /\ jobs[j].status = "created" => hm.job = j
       /\ (j \notin queue /\ deliveries[j] = 0 /\ hm.job # j)
            => (jobs[j].status = "error" /\ jobs[j].error = "Celery dispatch failed")
  /\ queue \subseteq DOMAIN jobs
  /\ hm.pc = "send" => hm.job \in DOMAIN jobs

\* send_task raised for a job, and the handler has returned.
C35_Witness ==
  /\ hm = HmIdle
  /\ \E j \in DOMAIN jobs :
       /\ j \notin queue
       /\ deliveries[j] = 0
       /\ jobs[j].status = "error"
       /\ job_updates[j][Len(job_updates[j])].message = "Celery dispatch failed"

\* An exception has reached the except clause of line 326 in this step.
ReplyRaised ==
  \/ \E upload \in {"no_upload", "no_file", "media_id", "none", "raised"} :
       poll_reply_attempt(upload, "raised")
  \/ poll_mark_raises

\* C36: poll_job_statuses repeats indefinitely.  After an exception in one
\* job's reply the loop goes on with the remaining jobs of the cycle, or
\* sleeps when there are none; after a failing query it sleeps; the loop is
\* always at a point from which it can go on; and it is asleep, the next
\* cycle before it, again and again.
C36_LoopNeverDies ==
  /\ [][/\ (ReplyRaised /\ Len(poll.todo) > 1)
             => poll' = [pc |-> "reply", todo |-> Tail(poll.todo)]
        /\ (ReplyRaised /\ Len(poll.todo) = 1) => poll' = PollSleep
        /\ poll_query_raises => (poll' = PollSleep /\ cache' = cache /\ jobs' = jobs)
        /\ poll'.pc \in {"sleep", "reply", "mark"}
        /\ poll'.pc \in {"reply", "mark"} => poll'.todo # <<>>]_vars
  /\ []<>(poll.pc = "sleep")

\* After an exception in the reply of the first job of a cycle, the loop is
\* at the reply of the second: the process has called post_reply for job 1,
\* nothing was delivered and nothing counted.
C36_Witness ==
  /\ poll.pc = "reply"
  /\ Len(poll.todo) = 1
  /\ Head(poll.todo).job_id = 2
  /\ calls[1] >= 1
  /\ posted[1] = 0
  /\ 1 \in DOMAIN cache
  /\ cache[1] = CacheEntry(FALSE, 0)
  /\ call.op = "get_pending_twitter_replies"

C38_MentionsHandedOnce ==
  /\ [][lm'.last >= lm.last]_vars
  /\ [](lm.pc = "sleep" => \A t \in lm.fetched : lm.last >= t)
  /\ [](\A t \in MentionIds : lm.handed[t] <= 1)
C38_Witness ==
  /\ lm.pc = "sleep"
  /\ lm.fetched = {1, 2}
  /\ lm.raised = {2}
  /\ lm.last = 2
  /\ lm.handed[1] = 1
  /\ lm.handed[2] = 1
====
